---- MODULE Spec2Model ----
(***************************************************************************)
(* Model of the convenience macros of wgpu-rs (src/macros.rs):             *)
(*   vertex_attr_array!  - builds an array of VertexAttribute with         *)
(*                         automatically computed offsets;                 *)
(*   include_spirv!      - embeds a SPIR-V file through util::make_spirv;   *)
(*   include_wgsl!       - embeds a WGSL file as text.                     *)
(* Each behaviour is one macro invocation: Init draws the call site (which *)
(* macro, its arguments, the embedded file, the target's byte order) and   *)
(* one action expands the macro and stores what it evaluates to.           *)
(***************************************************************************)
EXTENDS Integers, Sequences, FiniteSets

VARIABLES
    op,        \* the macro invoked at this call site
    list,      \* vertex_attr_array!: the `$loc => $fmt` pairs, in input order
    token,     \* include_*!: the `$($token)*` string (path and label)
    file,      \* include_*!: the content of the file named by token (bytes)
    endian,    \* byte order of the build target ("little" or "big")
    pc,        \* "call" before the invocation is evaluated, "done" after
    attrs,     \* vertex_attr_array!: the array produced
    desc,      \* include_*!: Some(ShaderModuleDescriptor) or None
    err        \* "none", or the failure that aborted the construction

vars == <<op, list, token, file, endian, pc, attrs, desc, err>>

----------------------------------------------------------------------------
(* Bounds of the model *)

\* longest attribute list given to vertex_attr_array!
MaxAttrs == 3
\* longest SPIR-V file, in bytes (8 = two words)
MaxBytes == 8
\* longest WGSL file, in bytes
MaxText == 3

\* shader locations used in the inputs (3 as in the test; no order imposed)
Locations == {0, 3}
\* vertex formats used in the inputs (the ones the macro's documentation uses)
Formats == {"Float32x2", "Float32", "Uint16x4"}
\* labels / paths
Tokens == {"shader.spv", "shader.wgsl"}
\* byte values of the first word of a SPIR-V file: the four bytes of the
\* magic number, so that every arrangement of them occurs
HeaderBytes == {2, 3, 7, 35}
\* byte values of the words after the first
BodyBytes == {0, 7}
\* byte values of a WGSL text
TextBytes == {102, 110, 123}
Endians == {"little", "big"}

----------------------------------------------------------------------------
(* Types of the crate *)

\* Option<T>: a sequence of at most one element
None == <<>>
Some(x) == <<x>>

\* ShaderFlags::VALIDATION, as the set of flags that are on
VALIDATION == {"VALIDATION"}

\* VertexFormat::size(): byte size of a format
size(fmt) ==
    CASE fmt = "Float32"   -> 4
      [] fmt = "Float32x2" -> 8
      [] fmt = "Uint16x4"  -> 8

\* the struct literal `VertexAttribute { format, offset, shader_location }`
VertexAttribute(item, off, loc) ==
    [format |-> item, offset |-> off, shader_location |-> loc]

----------------------------------------------------------------------------
(* vertex_attr_array! *)

\* a fold that starts at the last pair: same order of the output, offsets
\* accumulated from the end
RECURSIVE vertex_attr_array_from_end(_, _, _)
vertex_attr_array_from_end(t, off, rest) ==
    IF rest = <<>>
    THEN t
    ELSE LET n == Len(rest)
             last == rest[n]
         IN  vertex_attr_array_from_end(
                 <<VertexAttribute(last.fmt, off, last.loc)>> \o t,
                 off + size(last.fmt),
                 SubSeq(rest, 1, n - 1))

\* a fold that advances the offset before it emits the attribute
RECURSIVE vertex_attr_array_advance_first(_, _, _)
vertex_attr_array_advance_first(t, off, rest) ==
    IF rest = <<>>
    THEN t
    ELSE LET loc == Head(rest).loc
             item == Head(rest).fmt
         IN  vertex_attr_array_advance_first(
                 Append(t, VertexAttribute(item, off + size(item), loc)),
                 off + size(item),
                 Tail(rest))

\* a fold that puts each new attribute in front of the accumulated ones
RECURSIVE vertex_attr_array_prepend(_, _, _)
vertex_attr_array_prepend(t, off, rest) ==
    IF rest = <<>>
    THEN t
    ELSE LET loc == Head(rest).loc
             item == Head(rest).fmt
         IN  vertex_attr_array_prepend(
                 <<VertexAttribute(item, off, loc)>> \o t,
                 off + size(item),
                 Tail(rest))

\* the two internal rules `([$($t,)*] ; $off ; ...)` of the macro:
\*   no pair left  -> the accumulated array;
\*   a pair left   -> append VertexAttribute{$item, $off, $loc}, recurse with
\*                    $off + $item.size() on the remaining pairs
RECURSIVE vertex_attr_array_rec(_, _, _)
vertex_attr_array_rec(t, off, rest) ==
    IF rest = <<>>
    THEN t
    ELSE LET loc == Head(rest).loc
             item == Head(rest).fmt
         IN  vertex_attr_array_rec(
                 Append(t, VertexAttribute(item, off, loc)),
                 off + size(item),
                 Tail(rest))

\* the entry rule: `vertex_attr_array!([] ; 0; $($loc => $fmt ,)*)`
vertex_attr_array(pairs) == vertex_attr_array_rec(<<>>, 0, pairs)

----------------------------------------------------------------------------
(* util::make_spirv *)

\* size_of::<u32>()
WordSize == 4
\* 0x0723_0203
MAGIC_NUMBER == 119734787

\* four bytes read as one u32 in the target's byte order
word_of(b0, b1, b2, b3, e) ==
    IF e = "little"
    THEN b0 + 256 * b1 + 65536 * b2 + 16777216 * b3
    ELSE b3 + 256 * b2 + 65536 * b1 + 16777216 * b0

\* the byte slice reinterpreted as u32 words
to_words(data, e) ==
    [i \in 1..(Len(data) \div WordSize) |->
        word_of(data[WordSize * i - 3], data[WordSize * i - 2],
                data[WordSize * i - 1], data[WordSize * i], e)]

\* make_spirv: the alignment check, the reinterpretation, the check of the
\* first word, the wrapping as ShaderSource::SpirV.  A failure aborts.
make_spirv(data, e) ==
    IF Len(data) % WordSize # 0
    THEN [ok |-> FALSE, err |-> "MisalignedData"]
    ELSE LET words == to_words(data, e)
         IN  IF Len(words) = 0 \/ words[1] # MAGIC_NUMBER
             THEN [ok |-> FALSE, err |-> "InvalidMagicNumber"]
             ELSE [ok |-> TRUE, source |-> [tag |-> "SpirV", words |-> words]]

\* `include_str!(..).into()`: the &str as Cow<str>, content unchanged
into(text) == text

\* ShaderSource::Wgsl(text)
Wgsl(text) == [tag |-> "Wgsl", text |-> text]

\* the struct literal `ShaderModuleDescriptor { label, source, flags }`
ShaderModuleDescriptor(label, source, flags) ==
    [label |-> label, source |-> source, flags |-> flags]

----------------------------------------------------------------------------
(* include_spirv! and include_wgsl! *)

\* the bytes wrapped as words without going through make_spirv
include_spirv_unchecked(tok, data, e) ==
    [ok |-> TRUE,
     desc |-> ShaderModuleDescriptor(Some(tok),
                  [tag |-> "SpirV", words |-> to_words(data, e)], VALIDATION)]

\* the body of include_wgsl! pasted into include_spirv!
include_spirv_as_wgsl(tok, data, e) ==
    [ok |-> TRUE,
     desc |-> ShaderModuleDescriptor(Some(tok), Wgsl(into(data)), VALIDATION)]

\* the leftover bytes dropped before make_spirv sees the data
include_spirv_truncating(tok, data, e) ==
    LET source == make_spirv(SubSeq(data, 1, Len(data) - (Len(data) % WordSize)), e)
    IN  IF source.ok
        THEN [ok |-> TRUE,
              desc |-> ShaderModuleDescriptor(Some(tok), source.source, VALIDATION)]
        ELSE [ok |-> FALSE, err |-> source.err]

\* include_spirv!: label Some(token), source make_spirv(include_bytes!(token)),
\* flags VALIDATION; a failure of make_spirv aborts the construction
include_spirv(tok, data, e) ==
    LET source == make_spirv(data, e)
    IN  IF source.ok
        THEN [ok |-> TRUE,
              desc |-> ShaderModuleDescriptor(Some(tok), source.source, VALIDATION)]
        ELSE [ok |-> FALSE, err |-> source.err]

\* the text run through make_spirv instead of being wrapped as it is
include_wgsl_validated(tok, text) == include_spirv(tok, text, "little")

\* a descriptor without label and with no flag on
include_wgsl_bare(tok, text) ==
    [ok |-> TRUE, desc |-> ShaderModuleDescriptor(None, Wgsl(into(text)), {})]

\* include_wgsl!: label Some(token), source Wgsl(include_str!(token).into()),
\* flags VALIDATION
include_wgsl(tok, text) ==
    [ok |-> TRUE,
     desc |-> ShaderModuleDescriptor(Some(tok), Wgsl(into(text)), VALIDATION)]

----------------------------------------------------------------------------
(* Inputs *)

SeqsUpTo(S, n) == UNION {[1..k -> S] : k \in 0..n}

AttrLists == SeqsUpTo([loc : Locations, fmt : Formats], MaxAttrs)

Min(a, b) == IF a < b THEN a ELSE b

\* SPIR-V files: the first word over HeaderBytes, the rest over BodyBytes
SpirvFiles ==
    UNION {{h \o b : h \in [1..Min(k, WordSize) -> HeaderBytes],
                     b \in [1..(k - Min(k, WordSize)) -> BodyBytes]}
           : k \in 0..MaxBytes}

WgslFiles == SeqsUpTo(TextBytes, MaxText)

----------------------------------------------------------------------------
(* The state machine *)

InitAttr ==
    /\ op = "vertex_attr_array"
    /\ list \in AttrLists
    /\ token = ""
    /\ file = <<>>
    /\ endian \in Endians

InitSpirv ==
    /\ op = "include_spirv"
    /\ list = <<>>
    /\ token \in Tokens
    /\ file \in SpirvFiles
    /\ endian \in Endians

InitWgsl ==
    /\ op = "include_wgsl"
    /\ list = <<>>
    /\ token \in Tokens
    /\ file \in WgslFiles
    /\ endian \in Endians

Init ==
    /\ (InitAttr \/ InitSpirv \/ InitWgsl)
    /\ pc = "call"
    /\ attrs = <<>>
    /\ desc = None
    /\ err = "none"

VertexAttrArray ==
    /\ pc = "call"
    /\ op = "vertex_attr_array"
    /\ attrs' = vertex_attr_array(list)
    /\ pc' = "done"
    /\ UNCHANGED <<op, list, token, file, endian, desc, err>>

IncludeSpirv ==
    /\ pc = "call"
    /\ op = "include_spirv"
    /\ LET r == include_spirv(token, file, endian)
       IN  /\ desc' = IF r.ok THEN Some(r.desc) ELSE None
           /\ err' = IF r.ok THEN "none" ELSE r.err
    /\ pc' = "done"
    /\ UNCHANGED <<op, list, token, file, endian, attrs>>

IncludeWgsl ==
    /\ pc = "call"
    /\ op = "include_wgsl"
    /\ LET r == include_wgsl(token, file)
       IN  /\ desc' = IF r.ok THEN Some(r.desc) ELSE None
           /\ err' = IF r.ok THEN "none" ELSE r.err
    /\ pc' = "done"
    /\ UNCHANGED <<op, list, token, file, endian, attrs>>

Next == VertexAttrArray \/ IncludeSpirv \/ IncludeWgsl

Spec == Init /\ [][Next]_vars

----------------------------------------------------------------------------
(* Properties of vertex_attr_array! *)

AttrDone == pc = "done" /\ op = "vertex_attr_array"

\* the sum of the sizes of the formats of the first n pairs, in input order
RECURSIVE SizesBefore(_, _)
SizesBefore(pairs, n) ==
    IF n = 0 THEN 0 ELSE SizesBefore(pairs, n - 1) + size(pairs[n].fmt)

\* C1: the i-th attribute produced has as offset the sum of the sizes of the
\* formats of the pairs before it in input order; so the first offset is 0,
\* two consecutive offsets differ by the size of the earlier format, and the
\* offsets never decrease.
C1_OffsetsAreCumulativeSizes ==
    AttrDone =>
        /\ \A i \in DOMAIN attrs : attrs[i].offset = SizesBefore(list, i - 1)
        /\ (attrs # <<>> => attrs[1].offset = 0)
        /\ \A i \in DOMAIN attrs :
              i + 1 \in DOMAIN attrs =>
                 /\ attrs[i + 1].offset - attrs[i].offset = size(list[i].fmt)
                 /\ attrs[i + 1].offset >= attrs[i].offset

\* three attributes whose locations are not sorted and whose formats have
\* different sizes have been laid out
C1_Witness ==
    /\ AttrDone
    /\ Len(list) = 3
    /\ list[1].loc > list[2].loc
    /\ size(list[1].fmt) # size(list[2].fmt)
    /\ attrs[3].offset = size(list[1].fmt) + size(list[2].fmt)

\* C2: the array produced has the length and the order of the input: the
\* i-th attribute carries the i-th pair's location and format, whatever the
\* locations are; no pair gives the empty array; the macro never fails.
C2_SameLengthSameOrder ==
    AttrDone =>
        /\ Len(attrs) = Len(list)
        /\ \A i \in DOMAIN list :
              /\ attrs[i].shader_location = list[i].loc
              /\ attrs[i].format = list[i].fmt
        /\ (list = <<>> => attrs = <<>>)
        /\ err = "none"

\* a list with a repeated and a decreasing location has been laid out
C2_Witness ==
    /\ AttrDone
    /\ Len(list) = 3
    /\ list[1].loc > list[2].loc
    /\ list[1].loc = list[3].loc
    /\ list[1].fmt # list[3].fmt
    /\ Len(attrs) = 3

\* C9: the attributes produced for a prefix of the input are the prefix of
\* the attributes produced for the whole input: pairs that come later change
\* no earlier offset, location or format.
C9_NoLookahead ==
    AttrDone =>
        \A k \in 0..Len(list) :
            vertex_attr_array(SubSeq(list, 1, k)) = SubSeq(attrs, 1, k)

\* a list whose last pair is bigger than the ones before it has been laid out
C9_Witness ==
    /\ AttrDone
    /\ Len(list) = 3
    /\ size(list[3].fmt) > size(list[1].fmt)
    /\ attrs[2].offset = size(list[1].fmt)

----------------------------------------------------------------------------
(* Properties of include_spirv! *)

SpirvDone == pc = "done" /\ op = "include_spirv"

Aligned == Len(file) % 4 = 0

\* the i-th group of four bytes of the file, read in the target's byte order
FileWord(i) ==
    word_of(file[4 * i - 3], file[4 * i - 2], file[4 * i - 1], file[4 * i], endian)

\* C3: a file whose length is not a multiple of 4 fails with MisalignedData
\* whatever it holds, also when its first bytes are not the magic number, and
\* no descriptor is produced from it.
C3_MisalignedFails ==
    (SpirvDone /\ ~Aligned) => (err = "MisalignedData" /\ desc = None)

\* a misaligned file whose first word is not the magic number has been loaded
C3_Witness ==
    /\ SpirvDone
    /\ Len(file) = 5
    /\ FileWord(1) # MAGIC_NUMBER
    /\ err = "MisalignedData"

\* C4: a file whose length is a multiple of 4 and whose first word is not
\* 0x07230203 fails with InvalidMagicNumber and gives no descriptor.
C4_WrongMagicFails ==
    (SpirvDone /\ Aligned /\ Len(file) >= 4 /\ FileWord(1) # MAGIC_NUMBER)
        => (err = "InvalidMagicNumber" /\ desc = None)

\* a two-word file that starts with the bytes of the magic number in the
\* other byte order has been loaded
C4_Witness ==
    /\ SpirvDone
    /\ Len(file) = 8
    /\ endian = "little"
    /\ SubSeq(file, 1, 4) = <<7, 35, 2, 3>>
    /\ err = "InvalidMagicNumber"

\* C8: a file whose length is a multiple of 4 and whose first word is
\* 0x07230203 loads: the source is the SpirV variant and holds length/4
\* words, the i-th being the i-th group of four bytes of the file.
C8_WordsAreTheBytes ==
    (SpirvDone /\ Aligned /\ Len(file) >= 4 /\ FileWord(1) = MAGIC_NUMBER) =>
        /\ err = "none"
        /\ desc # None
        /\ desc[1].source.tag = "SpirV"
        /\ Len(desc[1].source.words) * 4 = Len(file)
        /\ \A i \in DOMAIN desc[1].source.words :
              desc[1].source.words[i] = FileWord(i)

\* a two-word file has been loaded into two different words
C8_Witness ==
    /\ SpirvDone
    /\ Len(file) = 8
    /\ err = "none"
    /\ desc # None
    /\ Len(desc[1].source.words) = 2
    /\ desc[1].source.words[2] # 0
    /\ desc[1].source.words[2] # desc[1].source.words[1]

\* C10: a SpirV source that include_spirv! returns has at least one word and
\* its first word is 0x07230203; the empty file, which passes the alignment
\* check, fails instead of giving a descriptor without words.
C10_NeverEmptyWords ==
    SpirvDone =>
        /\ desc # None =>
              /\ err = "none"
              /\ desc[1].source.tag = "SpirV"
              /\ Len(desc[1].source.words) >= 1
              /\ desc[1].source.words[1] = MAGIC_NUMBER
        /\ file = <<>> => (err # "none" /\ desc = None)

\* the empty file has been given to include_spirv! and it failed
C10_Witness ==
    /\ SpirvDone
    /\ file = <<>>
    /\ err # "none"

----------------------------------------------------------------------------
(* Properties of include_wgsl! and of both loaders *)

WgslDone == pc = "done" /\ op = "include_wgsl"

\* C5: include_wgsl! gives a descriptor whose source is the Wgsl variant,
\* whose text is the file's text unchanged and unvalidated, and whose label
\* is the label given.
C5_WgslTextAsIs ==
    WgslDone =>
        /\ err = "none"
        /\ desc # None
        /\ desc[1].source.tag = "Wgsl"
        /\ desc[1].source.text = file
        /\ desc[1].label = Some(token)

\* a text that is no shader has been loaded
C5_Witness ==
    /\ WgslDone
    /\ file = <<123, 123, 110>>
    /\ desc # None
    /\ desc[1].source.text = <<123, 123, 110>>

\* C6: every descriptor either loader produces carries the label given, as
\* Some, and the VALIDATION flags, whatever the content and the path.
C6_LabelAndFlags ==
    (pc = "done" /\ op \in {"include_spirv", "include_wgsl"} /\ desc # None) =>
        /\ desc[1].label = Some(token)
        /\ desc[1].label # None
        /\ desc[1].flags = VALIDATION

\* a SPIR-V descriptor has been produced under the label of a WGSL file
C6_Witness ==
    /\ SpirvDone
    /\ desc # None
    /\ token = "shader.wgsl"
    /\ desc[1].flags = VALIDATION

====
